---- MODULE Spec2Model ----
(***************************************************************************)
(* A model of log4rs' JSON encoder (src/encode/json.rs).                   *)
(*                                                                         *)
(* JsonEncoder::encode_inner builds a Message view over the log record,    *)
(* serializes it through serde_json into the sink and then writes NEWLINE. *)
(* The mdc field is serialized by Mdc::serialize, which walks the calling  *)
(* thread's log_mdc store through a callback that has no error channel.    *)
(*                                                                         *)
(* A string is a sequence of text chunks; the chunks that JSON must escape *)
(* (quote, backslash, newline) are one-character chunks.  The sink is the  *)
(* sequence of JSON tokens written to it, in write order.  Every write to  *)
(* the sink may fail, leaving a strict prefix of the tokens written.       *)
(***************************************************************************)
EXTENDS Integers, Sequences, FiniteSets, TLC

VARIABLES
    mdc,        \* mdc[t]: thread t's log_mdc store, in the order iter yields it
    tname,      \* tname[t]: thread::current().name() on thread t
    pc,         \* pc[t]: thread t's position in encode_inner
    msg,        \* msg[t]: the Message view built by the running call
    fi,         \* fi[t]: index of the next Message field to serialize
    it,         \* it[t]: index of the next store entry log_mdc::iter yields
    err,        \* err[t]: the local `err` of Mdc::serialize
    mfirst,     \* mfirst[t]: the mdc map is still in serde_json's State::First
    calls,      \* calls[t]: number of times the iteration callback ran
    attempts,   \* attempts[t]: serialize_key/serialize_value calls made on the map
    mapEnded,   \* mapEnded[t]: map.end() was called
    out,        \* out[t]: tokens the running call wrote to its sink
    result,     \* result[t]: what encode_inner returned
    prevMdc     \* prevMdc[t]: mdc object of the last Ok call since the store changed

vars == <<mdc, tname, pc, msg, fi, it, err, mfirst, calls, attempts, mapEnded,
          out, result, prevMdc>>

----------------------------------------------------------------------------
(* Bounds and input sets *)

MaxEntries == 2

Threads == {"t1", "t2"}

Keys == {<<"foo">>, <<"req">>, <<"a", "\"">>}
Vals == {<<"bar">>, <<"x", "\n", "\\">>}
KeysConc == {<<"foo">>, <<"a", "\"">>}
ValsConc == {<<"bar">>}

Rec(level, line, args) ==
    [time |-> "2016-03-20T14:22:20.644420340-08:00", level |-> level,
     target |-> <<"target">>, module_path |-> <<"module_path">>,
     file |-> <<"file">>, line |-> line, args |-> args]

None == [some |-> FALSE, v |-> <<>>]
Some(s) == [some |-> TRUE, v |-> s]
ThreadNames == {None, Some(<<"worker-1">>)}

Records ==
    {Rec("Debug", 100, <<"message">>),
     Rec("Error", 0, <<"disk ", "\\", " full">>),
     Rec("Warn", 65535, <<"message">>),
     Rec("Info", 17, <<>>),
     Rec("Trace", 100, <<"say ", "\"", "hi", "\"", "\n">>)}

RecordsConc == {Rec("Debug", 100, <<"message">>)}

----------------------------------------------------------------------------
(* serde_json output, as tokens *)

P(c) == [k |-> "p", v |-> <<c>>]

RECURSIVE JsonEscape(_)
JsonEscape(s) ==
    IF s = <<>> THEN <<>>
    ELSE LET c == Head(s)
             e == CASE c = "\"" -> <<"\\", "\"">>
                    [] c = "\\" -> <<"\\", "\\">>
                    [] c = "\n" -> <<"\\", "n">>
                    [] OTHER -> <<c>>
         IN e \o JsonEscape(Tail(s))

S(s) == [k |-> "str", v |-> JsonEscape(s)]

RECURSIVE Digits(_)
Digits(n) ==
    LET d == CASE n % 10 = 0 -> "0" [] n % 10 = 1 -> "1" [] n % 10 = 2 -> "2"
               [] n % 10 = 3 -> "3" [] n % 10 = 4 -> "4" [] n % 10 = 5 -> "5"
               [] n % 10 = 6 -> "6" [] n % 10 = 7 -> "7" [] n % 10 = 8 -> "8"
               [] OTHER -> "9"
    IN IF n < 10 THEN <<d>> ELSE Digits(n \div 10) \o <<d>>

Num(n) == [k |-> "num", v |-> Digits(n)]

Null == [k |-> "null", v |-> <<>>]

NEWLINE == <<[k |-> "nl", v |-> <<"\n">>]>>

level_str(level) ==
    CASE level = "Error" -> "ERROR"
      [] level = "Warn" -> "WARN"
      [] level = "Info" -> "INFO"
      [] level = "Debug" -> "DEBUG"
      [] level = "Trace" -> "TRACE"

Rfc3339(time) == <<time>>

(* Variant: level and line declared in the other order. *)
FieldNamesSwapped ==
    << <<"time">>, <<"message">>, <<"module_path">>, <<"file">>, <<"level">>,
       <<"line">>, <<"target">>, <<"thread">>, <<"mdc">> >>

FieldNames ==
    << <<"time">>, <<"message">>, <<"module_path">>, <<"file">>, <<"line">>,
       <<"level">>, <<"target">>, <<"thread">>, <<"mdc">> >>

NFields == Len(FieldNames)

BuildMessage(r, name) ==
    [time |-> Rfc3339(r.time), message |-> r.args, level |-> level_str(r.level),
     module_path |-> r.module_path, file |-> r.file, line |-> r.line,
     target |-> r.target, thread |-> name]

SerOption(o) == IF o.some THEN S(o.v) ELSE Null

FieldValue(i, m) ==
    CASE i = 1 -> S(m.time)
      [] i = 2 -> S(m.message)
      [] i = 3 -> S(m.module_path)
      [] i = 4 -> S(m.file)
      [] i = 5 -> Num(m.line)
      [] i = 6 -> S(<<m.level>>)
      [] i = 7 -> S(m.target)
      [] i = 8 -> SerOption(m.thread)

Comma(first) == IF first THEN <<>> ELSE <<P(",")>>

KeyToks(first, k) == Comma(first) \o <<S(k)>>
ValueToks(v) == <<P(":"), S(v)>>

(* Variant: the thread field carries skip_serializing_if = "Option::is_none". *)
FieldToksSkipNone(i, m) ==
    IF i = 8 /\ ~m.thread.some THEN <<>>
    ELSE KeyToks(i = 1, FieldNames[i])
            \o (IF i = NFields THEN <<P(":")>> ELSE <<P(":"), FieldValue(i, m)>>)

FieldToks(i, m) ==
    KeyToks(i = 1, FieldNames[i])
        \o (IF i = NFields THEN <<P(":")>> ELSE <<P(":"), FieldValue(i, m)>>)

(* A write of toks to the sink: all of it, or an error after a strict prefix. *)
WriteOutcomes(toks) ==
    {[ok |-> TRUE, w |-> toks]}
        \cup {[ok |-> FALSE, w |-> SubSeq(toks, 1, j)] : j \in 0..(Len(toks) - 1)}

----------------------------------------------------------------------------
(* Results *)

Pending == [st |-> "pending", at |-> 0, part |-> "none"]
OkVal == [st |-> "ok", at |-> 0, part |-> "none"]
Err(i, part) == [st |-> "err", at |-> i, part |-> part]

Idle ==
    [pcv |-> "idle", fiv |-> 1, itv |-> 1, errv |-> OkVal, mfirstv |-> TRUE,
     callsv |-> 0, attemptsv |-> <<>>, mapEndedv |-> FALSE, outv |-> <<>>,
     resultv |-> Pending]

----------------------------------------------------------------------------
(* The log_mdc store of a thread *)

(* Variant: one store shared by all threads instead of a thread-local one. *)
SharedMdc(t) == mdc["t1"]

ThreadMdc(t) == mdc[t]

HasKey(m, k) == \E i \in 1..Len(m) : m[i][1] = k

InsertAt(m, p, e) == SubSeq(m, 1, p - 1) \o <<e>> \o SubSeq(m, p, Len(m))

RemoveKey(m, k) ==
    LET F[i \in 0..Len(m)] ==
            IF i = 0 THEN <<>>
            ELSE IF m[i][1] = k THEN F[i - 1] ELSE Append(F[i - 1], m[i])
    IN F[Len(m)]

----------------------------------------------------------------------------
(* Variant: the result of message.serialize(..) is dropped, not propagated. *)
PropagateDropped(e) == [pcv |-> "newline", res |-> Pending]

(* An error of the serialization is returned by every `?` on its way out,    *)
(* the last one being message.serialize(..)? in encode_inner.                *)
Propagate(e) == [pcv |-> "done", res |-> e]

(* The `?` operator: on Ok go on to nextpc, on Err return the error at once. *)
Question(o, nextpc, e) ==
    IF o.ok THEN [pcv |-> nextpc, res |-> Pending] ELSE Propagate(e)

(* Variant: the callback writes without looking at `err`. *)
ShouldWriteAlways(e) == TRUE

(* The guard of the iteration callback: `if let Ok(()) = err`. *)
ShouldWrite(e) == e = OkVal

(* Variant: serialize_value is called whatever serialize_key returned, and   *)
(* its result is the one kept.                                               *)
EntryOutcomesNoAndThen(first, i, k, v) ==
    {[w |-> ko.w \o vo.w,
      e |-> IF vo.ok THEN OkVal ELSE Err(i, "value"),
      att |-> << <<i, "key", ko.ok>>, <<i, "value", vo.ok>> >>] :
        ko \in WriteOutcomes(KeyToks(first, k)), vo \in WriteOutcomes(ValueToks(v))}

(* map.serialize_key(k).and_then(|()| map.serialize_value(v)) for entry i:   *)
(* the tokens written, the value assigned to `err`, and the calls made.      *)
EntryOutcomes(first, i, k, v) ==
    {[w |-> ko.w, e |-> Err(i, "key"), att |-> << <<i, "key", FALSE>> >>] :
        ko \in {o \in WriteOutcomes(KeyToks(first, k)) : ~o.ok}}
    \cup
    {[w |-> KeyToks(first, k) \o vo.w,
      e |-> IF vo.ok THEN OkVal ELSE Err(i, "value"),
      att |-> << <<i, "key", TRUE>>, <<i, "value", vo.ok>> >>] :
        vo \in WriteOutcomes(ValueToks(v))}

(* Variant: the iteration stops at the first entry whose write failed. *)
NextIndexBreak(i, n, e) == IF e = OkVal THEN i + 1 ELSE n + 1

(* Variant: the iteration yields every other entry. *)
NextIndexSkip(i, n, e) == i + 2

(* log_mdc::iter yields every entry of the store; the callback cannot stop it. *)
NextIndex(i, n, e) == i + 1

----------------------------------------------------------------------------
(* The initial state: no call is running and every store is empty. *)

InitCommon ==
    /\ mdc = [t \in Threads |-> <<>>]
    /\ pc = [t \in Threads |-> Idle.pcv]
    /\ msg = [t \in Threads |-> BuildMessage(CHOOSE r \in RecordsConc : TRUE, None)]
    /\ fi = [t \in Threads |-> Idle.fiv]
    /\ it = [t \in Threads |-> Idle.itv]
    /\ err = [t \in Threads |-> Idle.errv]
    /\ mfirst = [t \in Threads |-> Idle.mfirstv]
    /\ calls = [t \in Threads |-> Idle.callsv]
    /\ attempts = [t \in Threads |-> Idle.attemptsv]
    /\ mapEnded = [t \in Threads |-> Idle.mapEndedv]
    /\ out = [t \in Threads |-> Idle.outv]
    /\ result = [t \in Threads |-> Idle.resultv]
    /\ prevMdc = [t \in Threads |-> None]

(* The thread that logs is named or not; thread::Builder fixes it at spawn. *)
Init ==
    /\ InitCommon
    /\ \E n \in ThreadNames : tname = [t \in Threads |-> IF t = "t1" THEN n ELSE None]

InitConc ==
    /\ InitCommon
    /\ tname = [t \in Threads |-> IF t = "t1" THEN Some(<<"worker-1">>) ELSE None]

----------------------------------------------------------------------------
(* log_mdc::insert, remove and clear, called by the thread between encodes *)

Insert(t, K, V) ==
    /\ pc[t] = "idle"
    /\ \E k \in K, v \in V :
          IF HasKey(mdc[t], k)
          THEN mdc' = [mdc EXCEPT ![t] =
                          [i \in 1..Len(@) |-> IF @[i][1] = k THEN <<k, v>> ELSE @[i]]]
          ELSE /\ Len(mdc[t]) < MaxEntries
               /\ \E p \in 1..(Len(mdc[t]) + 1) :
                     mdc' = [mdc EXCEPT ![t] = InsertAt(@, p, <<k, v>>)]
    /\ prevMdc' = [prevMdc EXCEPT ![t] = None]
    /\ UNCHANGED <<tname, pc, msg, fi, it, err, mfirst, calls, attempts, mapEnded,
                   out, result>>

Remove(t, K) ==
    /\ pc[t] = "idle"
    /\ \E k \in K :
          /\ HasKey(mdc[t], k)
          /\ mdc' = [mdc EXCEPT ![t] = RemoveKey(@, k)]
    /\ prevMdc' = [prevMdc EXCEPT ![t] = None]
    /\ UNCHANGED <<tname, pc, msg, fi, it, err, mfirst, calls, attempts, mapEnded,
                   out, result>>

Clear(t) ==
    /\ pc[t] = "idle"
    /\ mdc[t] # <<>>
    /\ mdc' = [mdc EXCEPT ![t] = <<>>]
    /\ prevMdc' = [prevMdc EXCEPT ![t] = None]
    /\ UNCHANGED <<tname, pc, msg, fi, it, err, mfirst, calls, attempts, mapEnded,
                   out, result>>

----------------------------------------------------------------------------
(* JsonEncoder::encode_inner, one step per serde call *)

(* encode: take the record, the thread's name, and build the Message view. *)
Encode(t, R) ==
    /\ pc[t] = "idle"
    /\ \E r \in R : msg' = [msg EXCEPT ![t] = BuildMessage(r, tname[t])]
    /\ pc' = [pc EXCEPT ![t] = "struct"]
    /\ UNCHANGED <<mdc, tname, fi, it, err, mfirst, calls, attempts, mapEnded,
                   out, result, prevMdc>>

(* Message::serialize: serialize_struct opens the object. *)
SerializeStruct(t) ==
    /\ pc[t] = "struct"
    /\ \E o \in WriteOutcomes(<<P("{")>>) :
          LET q == Question(o, "field", Err(0, "struct"))
          IN /\ out' = [out EXCEPT ![t] = @ \o o.w]
             /\ pc' = [pc EXCEPT ![t] = q.pcv]
             /\ result' = [result EXCEPT ![t] = q.res]
    /\ UNCHANGED <<mdc, tname, msg, fi, it, err, mfirst, calls, attempts, mapEnded,
                   prevMdc>>

(* serialize_field for time .. thread; for mdc the key, then Mdc::serialize. *)
SerializeField(t) ==
    /\ pc[t] = "field"
    /\ \E o \in WriteOutcomes(FieldToks(fi[t], msg[t])) :
          LET q == Question(o, IF fi[t] = NFields THEN "map" ELSE "field",
                            Err(fi[t], "field"))
          IN /\ out' = [out EXCEPT ![t] = @ \o o.w]
             /\ pc' = [pc EXCEPT ![t] = q.pcv]
             /\ result' = [result EXCEPT ![t] = q.res]
    /\ fi' = [fi EXCEPT ![t] = @ + 1]
    /\ UNCHANGED <<mdc, tname, msg, it, err, mfirst, calls, attempts, mapEnded,
                   prevMdc>>

(* Mdc::serialize: serializer.serialize_map(None)?; let mut err = Ok(()). *)
SerializeMap(t) ==
    /\ pc[t] = "map"
    /\ \E o \in WriteOutcomes(<<P("{")>>) :
          LET q == Question(o, "iter", Err(0, "map"))
          IN /\ out' = [out EXCEPT ![t] = @ \o o.w]
             /\ pc' = [pc EXCEPT ![t] = q.pcv]
             /\ result' = [result EXCEPT ![t] = q.res]
    /\ err' = [err EXCEPT ![t] = OkVal]
    /\ UNCHANGED <<mdc, tname, msg, fi, it, mfirst, calls, attempts, mapEnded,
                   prevMdc>>

(* One invocation of the closure passed to log_mdc::iter. *)
CallbackBody(t) ==
    /\ pc[t] = "iter"
    /\ it[t] <= Len(ThreadMdc(t))
    /\ LET e == ThreadMdc(t)[it[t]]
       IN IF ShouldWrite(err[t])
          THEN \E o \in EntryOutcomes(mfirst[t], it[t], e[1], e[2]) :
                  /\ out' = [out EXCEPT ![t] = @ \o o.w]
                  /\ err' = [err EXCEPT ![t] = o.e]
                  /\ attempts' = [attempts EXCEPT ![t] = @ \o o.att]
                  /\ mfirst' = [mfirst EXCEPT ![t] = FALSE]
          ELSE UNCHANGED <<out, err, attempts, mfirst>>
    /\ calls' = [calls EXCEPT ![t] = @ + 1]
    /\ it' = [it EXCEPT ![t] = NextIndex(@, Len(ThreadMdc(t)), err'[t])]
    /\ UNCHANGED <<tname, pc, msg, fi, mapEnded, result, prevMdc>>

(* Variant: the iteration takes the entries out of the store as it yields them. *)
CallbackTake(t) ==
    /\ CallbackBody(t)
    /\ mdc' = [mdc EXCEPT ![t] = [i \in 1..Len(@) |->
                   IF i = it[t] THEN <<@[i][1], <<>> >> ELSE @[i]]]

Callback(t) == CallbackBody(t) /\ UNCHANGED mdc

(* log_mdc::iter returns; `err?` *)
CheckErr(t) ==
    /\ pc[t] = "iter"
    /\ it[t] > Len(ThreadMdc(t))
    /\ LET q == Question([ok |-> err[t] = OkVal], "end", err[t])
       IN /\ pc' = [pc EXCEPT ![t] = q.pcv]
          /\ result' = [result EXCEPT ![t] = q.res]
    /\ UNCHANGED <<mdc, tname, msg, fi, it, err, mfirst, calls, attempts, mapEnded,
                   out, prevMdc>>

(* map.end() *)
MapEnd(t) ==
    /\ pc[t] = "end"
    /\ mapEnded' = [mapEnded EXCEPT ![t] = TRUE]
    /\ \E o \in WriteOutcomes(<<P("}")>>) :
          LET q == Question(o, "structend", Err(0, "end"))
          IN /\ out' = [out EXCEPT ![t] = @ \o o.w]
             /\ pc' = [pc EXCEPT ![t] = q.pcv]
             /\ result' = [result EXCEPT ![t] = q.res]
    /\ UNCHANGED <<mdc, tname, msg, fi, it, err, mfirst, calls, attempts, prevMdc>>

(* the end of Message::serialize closes the object; message.serialize(..)? *)
StructEnd(t) ==
    /\ pc[t] = "structend"
    /\ \E o \in WriteOutcomes(<<P("}")>>) :
          LET q == Question(o, "newline", Err(0, "structend"))
          IN /\ out' = [out EXCEPT ![t] = @ \o o.w]
             /\ pc' = [pc EXCEPT ![t] = q.pcv]
             /\ result' = [result EXCEPT ![t] = q.res]
    /\ UNCHANGED <<mdc, tname, msg, fi, it, err, mfirst, calls, attempts, mapEnded,
                   prevMdc>>

(* Variant: the newline is written twice. *)
WriteNewlineTwice(t) ==
    /\ pc[t] = "newline"
    /\ \E o \in WriteOutcomes(NEWLINE \o NEWLINE) :
          /\ out' = [out EXCEPT ![t] = @ \o o.w]
          /\ result' = [result EXCEPT ![t] =
                           IF o.ok THEN OkVal ELSE Err(0, "newline")]
    /\ pc' = [pc EXCEPT ![t] = "done"]
    /\ UNCHANGED <<mdc, tname, msg, fi, it, err, mfirst, calls, attempts, mapEnded,
                   prevMdc>>

(* w.write_all(NEWLINE.as_bytes())?; Ok(()) *)
WriteNewline(t) ==
    /\ pc[t] = "newline"
    /\ \E o \in WriteOutcomes(NEWLINE) :
          /\ out' = [out EXCEPT ![t] = @ \o o.w]
          /\ result' = [result EXCEPT ![t] =
                           IF o.ok THEN OkVal ELSE Err(0, "newline")]
    /\ pc' = [pc EXCEPT ![t] = "done"]
    /\ UNCHANGED <<mdc, tname, msg, fi, it, err, mfirst, calls, attempts, mapEnded,
                   prevMdc>>

----------------------------------------------------------------------------
(* What a finished call wrote, read back from the sink *)

(* Nesting depth after token i: opened minus closed braces among toks[1..i]. *)
Depth(toks, i) ==
    Cardinality({j \in 1..i : toks[j] = P("{")})
        - Cardinality({j \in 1..i : toks[j] = P("}")})

SelectIdx(toks, Keep(_)) ==
    LET F[i \in 0..Len(toks)] ==
            IF i = 0 THEN <<>>
            ELSE IF Keep(i) THEN Append(F[i - 1], toks[i]) ELSE F[i - 1]
    IN F[Len(toks)]

(* The tokens strictly inside the nested (mdc) object. *)
MdcTokens(toks) ==
    LET Inner(i) == Depth(toks, i) >= 2 /\ Depth(toks, i - 1) >= 2
    IN SelectIdx(toks, Inner)

RECURSIVE JsonUnescape(_)
JsonUnescape(e) ==
    IF e = <<>> THEN <<>>
    ELSE IF Head(e) = "\\" /\ Len(e) >= 2
         THEN <<(IF e[2] = "n" THEN "\n" ELSE e[2])>> \o JsonUnescape(Tail(Tail(e)))
         ELSE <<Head(e)>> \o JsonUnescape(Tail(e))

(* The call returned to its caller. *)
Return(t) ==
    /\ pc[t] = "done"
    /\ prevMdc' = [prevMdc EXCEPT ![t] =
                      IF result[t] = OkVal THEN Some(MdcTokens(out[t])) ELSE @]
    /\ pc' = [pc EXCEPT ![t] = Idle.pcv]
    /\ fi' = [fi EXCEPT ![t] = Idle.fiv]
    /\ it' = [it EXCEPT ![t] = Idle.itv]
    /\ err' = [err EXCEPT ![t] = Idle.errv]
    /\ mfirst' = [mfirst EXCEPT ![t] = Idle.mfirstv]
    /\ calls' = [calls EXCEPT ![t] = Idle.callsv]
    /\ attempts' = [attempts EXCEPT ![t] = Idle.attemptsv]
    /\ mapEnded' = [mapEnded EXCEPT ![t] = Idle.mapEndedv]
    /\ out' = [out EXCEPT ![t] = Idle.outv]
    /\ result' = [result EXCEPT ![t] = Idle.resultv]
    /\ UNCHANGED <<mdc, tname, msg>>

----------------------------------------------------------------------------
(* One thread, every record and store content of the input sets *)

Next ==
    \/ Insert("t1", Keys, Vals)
    \/ Remove("t1", Keys)
    \/ Clear("t1")
    \/ Encode("t1", Records)
    \/ SerializeStruct("t1")
    \/ SerializeField("t1")
    \/ SerializeMap("t1")
    \/ Callback("t1")
    \/ CheckErr("t1")
    \/ MapEnd("t1")
    \/ StructEnd("t1")
    \/ WriteNewline("t1")
    \/ Return("t1")

Spec == Init /\ [][Next]_vars

(* Every thread, each with its own sink and store, in every interleaving *)

NextConc ==
    \E t \in Threads :
        \/ Insert(t, KeysConc, ValsConc)
        \/ Remove(t, KeysConc)
        \/ Clear(t)
        \/ Encode(t, RecordsConc)
        \/ SerializeStruct(t)
        \/ SerializeField(t)
        \/ SerializeMap(t)
        \/ Callback(t)
        \/ CheckErr(t)
        \/ MapEnd(t)
        \/ StructEnd(t)
        \/ WriteNewline(t)
        \/ Return(t)

SpecConc == InitConc /\ [][NextConc]_vars

----------------------------------------------------------------------------
(* Reading a sink back *)

Done(t) == pc[t] = "done"
Succeeded(t) == Done(t) /\ result[t] = OkVal
Returned(t, e) == Done(t) /\ result[t] = e

IsPrefix(a, b) == Len(a) <= Len(b) /\ SubSeq(b, 1, Len(a)) = a

IsNl(tok) == tok.k = "nl"
NlCount(toks) == Cardinality({i \in 1..Len(toks) : IsNl(toks[i])})

(* The string tokens that are keys of the outer object, unescaped. *)
TopKeys(toks) ==
    LET IsKey(i) == /\ toks[i].k = "str"
                    /\ Depth(toks, i) = 1
                    /\ i < Len(toks)
                    /\ toks[i + 1] = P(":")
        ks == SelectIdx(toks, IsKey)
    IN [i \in 1..Len(ks) |-> JsonUnescape(ks[i].v)]

(* The tokens form one object, closed by token n and by no token before it. *)
OneObject(toks, n) ==
    /\ n >= 2
    /\ Len(toks) >= n
    /\ toks[1] = P("{")
    /\ Depth(toks, n) = 0
    /\ \A i \in 1..(n - 1) : Depth(toks, i) >= 1

Malformed == << <<"malformed">>, <<"malformed">> >>

(* The key/value pairs of a sequence of object members [,] "k" : "v" ... *)
RECURSIVE ParsePairs(_, _)
ParsePairs(toks, first) ==
    IF toks = <<>> THEN <<>>
    ELSE LET s == IF first THEN toks ELSE Tail(toks)
         IN IF /\ (first \/ Head(toks) = P(","))
               /\ Len(s) >= 3
               /\ s[1].k = "str" /\ s[2] = P(":") /\ s[3].k = "str"
            THEN << <<JsonUnescape(s[1].v), JsonUnescape(s[3].v)>> >>
                     \o ParsePairs(SubSeq(s, 4, Len(s)), FALSE)
            ELSE <<Malformed>>

(* The token that follows `"key":` at the top level; Malformed if there is none. *)
TopValue(toks, key) ==
    LET at == {i \in 1..Len(toks) :
                  /\ toks[i] = S(key) /\ Depth(toks, i) = 1
                  /\ i + 1 < Len(toks) /\ toks[i + 1] = P(":")}
    IN IF Cardinality(at) = 1 THEN toks[(CHOOSE i \in at : TRUE) + 2]
       ELSE [k |-> "malformed", v |-> <<>>]

(* The line the unit test expects for a Message and a store. *)
RECURSIVE ExpectedEntries(_, _)
ExpectedEntries(store, first) ==
    IF store = <<>> THEN <<>>
    ELSE Comma(first) \o <<S(store[1][1]), P(":"), S(store[1][2])>>
            \o ExpectedEntries(Tail(store), FALSE)

ExpectedLine(m, store) ==
    <<P("{"), S(<<"time">>), P(":"), S(m.time),
      P(","), S(<<"message">>), P(":"), S(m.message),
      P(","), S(<<"module_path">>), P(":"), S(m.module_path),
      P(","), S(<<"file">>), P(":"), S(m.file),
      P(","), S(<<"line">>), P(":"), Num(m.line),
      P(","), S(<<"level">>), P(":"), S(<<m.level>>),
      P(","), S(<<"target">>), P(":"), S(m.target),
      P(","), S(<<"thread">>), P(":"), (IF m.thread.some THEN S(m.thread.v) ELSE Null),
      P(","), S(<<"mdc">>), P(":"), P("{")>>
        \o ExpectedEntries(store, TRUE)
        \o <<P("}"), P("}"), [k |-> "nl", v |-> <<"\n">>]>>

(* The serializer calls made on the mdc map, counted *)
Count(t, part, ok) ==
    Cardinality({j \in 1..Len(attempts[t]) :
                    attempts[t][j][2] = part /\ attempts[t][j][3] = ok})
KeysWritten(t) == Count(t, "key", TRUE)
ValuesWritten(t) == Count(t, "value", TRUE)
FailedAt(t) == {j \in 1..Len(attempts[t]) : ~attempts[t][j][3]}
AnyFailed(t) == FailedAt(t) # {}
FirstFailure(t) ==
    LET j == CHOOSE x \in FailedAt(t) : \A y \in FailedAt(t) : x <= y
    IN Err(attempts[t][j][1], attempts[t][j][2])

----------------------------------------------------------------------------
NineKeys ==
    << <<"time">>, <<"message">>, <<"module_path">>, <<"file">>, <<"line">>,
       <<"level">>, <<"target">>, <<"thread">>, <<"mdc">> >>

(* C1: every successful call writes exactly one JSON object whose top-level  *)
(* keys are time, message, module_path, file, line, level, target, thread,   *)
(* mdc, each once and in that order, whatever the record and the store hold. *)
C1_OneObjectNineKeys ==
    \A t \in Threads :
        Succeeded(t) =>
            /\ OneObject(out[t], Len(out[t]) - 1)
            /\ TopKeys(out[t]) = NineKeys

C1_Witness ==
    \E t \in Threads :
        /\ Succeeded(t)
        /\ Len(mdc[t]) = 2
        /\ HasKey(mdc[t], <<"a", "\"">>)
        /\ msg[t].message # <<"message">>
        /\ msg[t].level = "TRACE"

(* C2: in a successful call the newline is written exactly once, after the   *)
(* mdc object and the outer object are closed, and it is the last write: a   *)
(* sink that holds the newline belongs to a call that has returned Ok.       *)
C2_NewlineOnceAndLast ==
    \A t \in Threads :
        /\ Succeeded(t) => NlCount(out[t]) = 1
        /\ NlCount(out[t]) >= 1 =>
              /\ Succeeded(t)
              /\ NlCount(out[t]) = 1
              /\ IsNl(out[t][Len(out[t])])
              /\ OneObject(out[t], Len(out[t]) - 1)

C2_Witness ==
    \E t \in Threads :
        /\ Succeeded(t)
        /\ mdc[t] # <<>>
        /\ IsNl(out[t][Len(out[t])])
        /\ out[t][Len(out[t]) - 1] = P("}")

(* C3: after any inserts, removes and clears, a successful call writes an    *)
(* mdc object whose entries are exactly the pairs the store holds, one per   *)
(* key, in the order the store yields them; an empty store gives {}.         *)
C3_MdcFaithful ==
    \A t \in Threads :
        Succeeded(t) =>
            /\ TopValue(out[t], <<"mdc">>) = P("{")
            /\ ParsePairs(MdcTokens(out[t]), TRUE) = mdc[t]
            /\ mdc[t] = <<>> =>
                  SubSeq(out[t], Len(out[t]) - 3, Len(out[t]) - 1)
                      = <<P("{"), P("}"), P("}")>>

C3_Witness ==
    \E t \in Threads :
        /\ Succeeded(t)
        /\ Len(mdc[t]) = 2
        /\ mdc[t][1][1] = <<"a", "\"">>
        /\ mdc[t][2][2] # <<"bar">>
        /\ ParsePairs(MdcTokens(out[t]), TRUE) = mdc[t]

(* C4: once the write of an entry's key or value has failed, no key or value *)
(* of a later entry is given to the serializer, and the call returns that    *)
(* error.                                                                    *)
C4_NoWriteAfterMdcFailure ==
    \A t \in Threads :
        AnyFailed(t) =>
            /\ FailedAt(t) = {Len(attempts[t])}
            /\ result[t] # OkVal
            /\ Done(t) => result[t] = FirstFailure(t)

C4_Witness ==
    \E t \in Threads :
        /\ Done(t)
        /\ Len(mdc[t]) = 2
        /\ calls[t] = 2
        /\ AnyFailed(t)
        /\ attempts[t][Len(attempts[t])][1] = 1
        /\ result[t].st = "err"

Failed(t) == result[t].st = "err" \/ err[t].st = "err" \/ AnyFailed(t)

(* C5: a call returns Ok only when the whole object and the newline are in   *)
(* the sink; a call in which a write failed returns an error, its sink holds *)
(* a strict prefix of the line without the newline, and after the failure    *)
(* nothing more is written to the sink.                                      *)
C5_NoPartialSuccess ==
    /\ [](\A t \in Threads :
            /\ Succeeded(t) => out[t] = ExpectedLine(msg[t], mdc[t])
            /\ Done(t) => result[t].st \in {"ok", "err"}
            /\ (Done(t) /\ Failed(t)) =>
                  /\ result[t].st = "err"
                  /\ NlCount(out[t]) = 0
                  /\ IsPrefix(out[t], ExpectedLine(msg[t], mdc[t]))
                  /\ Len(out[t]) < Len(ExpectedLine(msg[t], mdc[t])))
    /\ [][\A t \in Threads :
            Failed(t) => (out'[t] = out[t] \/ pc'[t] = "idle")]_vars

C5_Witness ==
    \E t \in Threads :
        /\ Returned(t, Err(0, "end"))
        /\ Len(mdc[t]) = 2
        /\ KeysWritten(t) = 2
        /\ ValuesWritten(t) = 2

(* C6: no step of a call changes the store of its thread, whether the call   *)
(* succeeds or fails, so successive successful calls with no insert, remove  *)
(* or clear in between write the same mdc object.                            *)
C6_EncodeLeavesStore ==
    /\ [][\A t \in Threads :
            (pc[t] # "idle" \/ pc'[t] # "idle") => mdc'[t] = mdc[t]]_vars
    /\ [](\A t \in Threads :
            (Succeeded(t) /\ prevMdc[t].some) => MdcTokens(out[t]) = prevMdc[t].v)

C6_Witness ==
    \E t \in Threads :
        /\ Succeeded(t)
        /\ prevMdc[t].some
        /\ Len(mdc[t]) = 2
        /\ MdcTokens(out[t]) = prevMdc[t].v

(* C7: with every thread running calls on its own sink and store, in every   *)
(* interleaving, what a thread has written is a prefix of the line for its   *)
(* own record, its own name and its own store, and every entry it gave to    *)
(* the serializer is an entry of its own store.                              *)
C7_ThreadsKeepApart ==
    \A t \in Threads :
        /\ pc[t] = "idle" => out[t] = <<>>
        /\ pc[t] # "idle" =>
              /\ msg[t].thread = tname[t]
              /\ IsPrefix(out[t], ExpectedLine(msg[t], mdc[t]))
              /\ \A j \in 1..Len(attempts[t]) : attempts[t][j][1] \in 1..Len(mdc[t])

C7_Witness ==
    /\ Succeeded("t1")
    /\ Succeeded("t2")
    /\ Len(mdc["t1"]) = 2
    /\ Len(mdc["t2"]) = 1
    /\ ~HasKey(mdc["t1"], mdc["t2"][1][1]) \/ mdc["t1"][1] # mdc["t2"][1]

(* C8: the thread key is always in the object written: its value is the      *)
(* thread's name as a JSON string when the thread is named and null when it  *)
(* is not.                                                                   *)
C8_ThreadKeyPresent ==
    \A t \in Threads :
        Succeeded(t) =>
            TopValue(out[t], <<"thread">>)
                = IF tname[t].some
                  THEN [k |-> "str", v |-> JsonEscape(tname[t].v)]
                  ELSE [k |-> "null", v |-> <<>>]

C8_Witness ==
    \E t \in Threads :
        /\ Succeeded(t)
        /\ ~tname[t].some
        /\ TopValue(out[t], <<"thread">>).k = "null"

PastIter(t) ==
    \/ pc[t] \in {"end", "structend", "newline"}
    \/ Done(t) /\ result[t].part \notin {"struct", "field", "map"}

(* C9: the iteration of the store runs to its end: the callback has run once *)
(* for each of the n entries when the iteration returns, failure or not; the *)
(* recorded error is never overwritten and is that of the earliest failing   *)
(* entry; the error is returned after the iteration and before map.end(), so *)
(* the map is ended exactly when no error was recorded.                      *)
C9_IterationRunsToEnd ==
    \A t \in Threads :
        /\ pc[t] = "iter" => calls[t] = it[t] - 1 /\ calls[t] <= Len(mdc[t])
        /\ PastIter(t) => calls[t] = Len(mdc[t])
        /\ err[t].st = "err" <=> AnyFailed(t)
        /\ AnyFailed(t) => err[t] = FirstFailure(t)
        /\ (PastIter(t) /\ err[t] # OkVal) => Returned(t, err[t]) /\ ~mapEnded[t]
        /\ mapEnded[t] => PastIter(t) /\ err[t] = OkVal
        /\ (PastIter(t) /\ err[t] = OkVal /\ pc[t] # "end") => mapEnded[t]

C9_Witness ==
    \E t \in Threads :
        /\ Returned(t, Err(1, "key"))
        /\ Len(mdc[t]) = 2
        /\ calls[t] = 2
        /\ ~mapEnded[t]

(* C10: in an entry the key is written before the value and the value is     *)
(* tried only after its key succeeded; a key whose value failed stays in the *)
(* output.  So the keys written are as many as the values written or one     *)
(* more, and as many whenever the map is ended.                              *)
C10_KeysLeadValuesByOne ==
    \A t \in Threads :
        /\ KeysWritten(t) - ValuesWritten(t) \in {0, 1}
        /\ mapEnded[t] => KeysWritten(t) = ValuesWritten(t)
        /\ \A j \in 1..Len(attempts[t]) :
              attempts[t][j][2] = "value" =>
                  j > 1 /\ attempts[t][j - 1] = <<attempts[t][j][1], "key", TRUE>>
        /\ (err[t].st = "err" /\ err[t].part = "value") =>
              /\ KeysWritten(t) = ValuesWritten(t) + 1
              /\ \E i \in 1..Len(out[t]) :
                    /\ Depth(out[t], i) = 2
                    /\ out[t][i] = S(mdc[t][err[t].at][1])

C10_Witness ==
    \E t \in Threads :
        /\ Returned(t, Err(2, "value"))
        /\ KeysWritten(t) = 2
        /\ ValuesWritten(t) = 1
        /\ out[t][Len(out[t])] = P(":")

====
